---- MODULE Spec2Model ----
(***************************************************************************)
(* The value-binding core of konfig (value.go): Bind / BindStructStrict,   *)
(* Value, value.set, value.setValues, value.setStruct, unmarshalText,      *)
(* castValue and getStructKeys.                                            *)
(*                                                                         *)
(* Strings are sequences of one-character strings, so that HasPrefix,      *)
(* EqualFold, ToLower, SplitN and slicing are computed as the code         *)
(* computes them.  Go maps are reference values: a map-typed field holds   *)
(* a reference into `heap` (0 is the nil map), so that two struct values   *)
(* copied from one another share their maps, as they do in Go.             *)
(***************************************************************************)
EXTENDS Integers, Sequences, FiniteSets

VARIABLES
  vt,      \* value.vt: the bound type (<<>> before Bind)
  v,       \* value.v: the atomic cell, <<>> before Bind, else <<snapshot>>
  heap,    \* the Go heap's map objects, indexed by reference
  mut,     \* value.mut: 0 when free, else the thread holding it
  strict,  \* the keys handed to c.Strict by BindStructStrict
  last,    \* the last completed call of the sequential API
  snap,    \* the snapshot a reader obtained from Value(), and its contents then
  pc,      \* per thread: position inside set / setValues
  call,    \* per thread: the call it is executing
  loc,     \* per thread: its local variables (configValue, nVal, keys left)
  log      \* completed calls of the threads, in order of completion

vars == <<vt, v, heap, mut, strict, last, snap, pc, call, loc, log>>

-----------------------------------------------------------------------------
(* Strings *)

\* src/value.go:20-23
KeySep == "."

Str1(c) == <<c>>

Upper == {"A", "B", "C", "D", "F", "G", "H", "I", "L", "N", "P", "Q", "S", "T", "U", "Z"}

\* strings.ToLower on one character of the alphabet in use
LowerChar(c) ==
  CASE c = "A" -> "a" [] c = "B" -> "b" [] c = "C" -> "c" [] c = "D" -> "d"
    [] c = "F" -> "f" [] c = "G" -> "g" [] c = "H" -> "h" [] c = "I" -> "i"
    [] c = "L" -> "l" [] c = "N" -> "n" [] c = "P" -> "p" [] c = "Q" -> "q"
    [] c = "S" -> "s" [] c = "T" -> "t" [] c = "U" -> "u" [] c = "Z" -> "z"
    [] OTHER -> c

ToLower(s) == [i \in 1..Len(s) |-> LowerChar(s[i])]

EqualFold(s, t) == ToLower(s) = ToLower(t)

HasPrefix(s, p) == Len(s) >= Len(p) /\ SubSeq(s, 1, Len(p)) = p

\* s[n:]
Drop(s, n) == SubSeq(s, n + 1, Len(s))

\* index of the first KeySep in s, 0 when there is none
IndexSep(s) ==
  IF \E i \in 1..Len(s) : s[i] = KeySep
  THEN CHOOSE i \in 1..Len(s) : s[i] = KeySep /\ \A j \in 1..(i - 1) : s[j] # KeySep
  ELSE 0

\* strings.SplitN(s, KeySep, 2)
SplitN2(s) ==
  IF IndexSep(s) = 0 THEN <<s>>
  ELSE <<SubSeq(s, 1, IndexSep(s) - 1), Drop(s, IndexSep(s))>>

\* byte-wise order of the characters in use (upper case sorts before lower case)
CharRank(c) ==
  CASE c = "-" -> 1 [] c = "." -> 2 [] c = "7" -> 3 [] c \in Upper -> 4 [] OTHER -> 5

CharLess(c, d) ==
  \/ CharRank(c) < CharRank(d)
  \/ CharRank(c) = CharRank(d) /\ c # d /\
     LET order == <<"A", "B", "C", "D", "F", "G", "H", "I", "L", "N", "P", "Q", "S", "T", "U", "Z",
                    "a", "b", "c", "d", "f", "g", "h", "i", "l", "n", "p", "q", "r", "s", "t", "u",
                    "x", "y", "z">>
         pos(e) == CHOOSE i \in 1..Len(order) : order[i] = e
     IN pos(c) < pos(d)

\* s < t as Go compares strings
StrLess(s, t) ==
  \E i \in 1..(Len(t)) :
    /\ \A j \in 1..(i - 1) : j <= Len(s) /\ s[j] = t[j]
    /\ \/ i = Len(s) + 1
       \/ i <= Len(s) /\ CharLess(s[i], t[i])

\* sorted(source): the keys of a map in increasing order
RECURSIVE SortedSeq(_)
SortedSeq(S) ==
  IF S = {} THEN <<>>
  ELSE LET m == CHOOSE x \in S : \A y \in S \ {x} : StrLess(x, y)
       IN <<m>> \o SortedSeq(S \ {m})

sorted(source) == SortedSeq(DOMAIN source)

-----------------------------------------------------------------------------
(* Types (reflect.Type) and the record shapes bound in this development *)

TString == [kind |-> "string"]
TInt == [kind |-> "int"]
\* a named integer type whose pointer implements encoding.TextUnmarshaler
TText == [kind |-> "text"]
TInterface == [kind |-> "interface"]
TStruct(fs) == [kind |-> "struct", fields |-> fs]
TMap(e) == [kind |-> "map", elem |-> e]
TPtr(e) == [kind |-> "ptr", elem |-> e]

\* reflect.StructField: Name, Tag.Get(TagKey), Type
Field(name, tag, type) == [Name |-> name, Tag |-> tag, Type |-> type]

EmbedTag == <<",", "e", "m", "b", "e", "d">>
DashTag == <<"-">>
NoTag == <<>>

\* map[string]interface{}
OpenMap == TMap(TInterface)

\* struct { A string `konfig:"a"`; B struct{ C string `konfig:"c"` } `konfig:",embed"`;
\*          D string `konfig:"-"`; N int `konfig:"n"` }
ShapeFlat ==
  TStruct(<<Field(<<"A">>, <<"a">>, TString),
            Field(<<"B">>, EmbedTag, TStruct(<<Field(<<"C">>, <<"c">>, TString)>>)),
            Field(<<"D">>, DashTag, TString),
            Field(<<"N">>, <<"n">>, TInt)>>)

\* struct { S struct{ H string `konfig:"h"`; I struct{ Z int `konfig:"z"` } `konfig:"i"` } `konfig:"s"`;
\*          P *struct{ Q int `konfig:"q"` } `konfig:"p"` }
ShapeNest ==
  TStruct(<<Field(<<"S">>, <<"s">>,
                  TStruct(<<Field(<<"H">>, <<"h">>, TString),
                            Field(<<"I">>, <<"i">>, TStruct(<<Field(<<"Z">>, <<"z">>, TInt)>>))>>)),
            Field(<<"P">>, <<"p">>, TPtr(TStruct(<<Field(<<"Q">>, <<"q">>, TInt)>>)))>>)

\* type Item struct { N string `konfig:"n"`; U Port `konfig:"u"` }
Item == TStruct(<<Field(<<"N">>, <<"n">>, TString), Field(<<"U">>, <<"u">>, TText)>>)

\* struct { L map[string]string `konfig:"t"`; T map[string]Item `konfig:"r"` }
ShapeMaps ==
  TStruct(<<Field(<<"L">>, <<"t">>, TMap(TString)),
            Field(<<"T">>, <<"r">>, TMap(Item))>>)

\* struct { F string `konfig:"g"`; G string }
ShapeTie ==
  TStruct(<<Field(<<"F">>, <<"g">>, TString),
            Field(<<"G">>, NoTag, TString)>>)

Records == {ShapeFlat, ShapeNest, ShapeMaps, ShapeTie}
Shapes == Records \cup {OpenMap}

-----------------------------------------------------------------------------
(* Values *)

\* a heap slot: a map object, or free
FreeSlot == [used |-> FALSE, kv |-> <<>>]
EmptyMap == [used |-> TRUE, kv |-> <<>>]

\* number of map objects the heap can hold
MaxHeap == 6

EmptyHeap == [i \in 1..MaxHeap |-> FreeSlot]

\* make(map...) / reflect.MakeMap: the reference of a fresh map object, 0 when
\* the heap is full
Alloc(h) ==
  IF \E i \in 1..MaxHeap : ~h[i].used
  THEN CHOOSE i \in 1..MaxHeap : ~h[i].used /\ \A j \in 1..(i - 1) : h[j].used
  ELSE 0

\* m[k] = x on a Go map
Put(m, k, x) == [kk \in (DOMAIN m) \cup {k} |-> IF kk = k THEN x ELSE m[kk]]

\* reflect.Zero(t)
RECURSIVE Zero(_)
Zero(t) ==
  CASE t.kind = "string" -> <<>>
    [] t.kind = "int" -> 0
    [] t.kind = "text" -> 0
    [] t.kind = "map" -> 0
    [] t.kind = "ptr" -> <<>>
    [] t.kind = "struct" -> [i \in 1..Len(t.fields) |-> Zero(t.fields[i].Type)]

\* What a reader sees through a value of type t: the map references followed
\* into the heap (a nil map and an empty map are different)
RECURSIVE Deep(_, _, _)
Deep(t, x, h) ==
  CASE t.kind = "map" ->
         IF x = 0 THEN [nil |-> TRUE, kv |-> <<>>]
         ELSE [nil |-> FALSE, kv |-> [k \in DOMAIN h[x].kv |-> Deep(t.elem, h[x].kv[k], h)]]
    [] t.kind = "ptr" -> IF x = <<>> THEN <<>> ELSE <<Deep(t.elem, x[1], h)>>
    [] t.kind = "struct" -> [i \in 1..Len(t.fields) |-> Deep(t.fields[i].Type, x[i], h)]
    [] OTHER -> x

\* the map references reachable from a value of type t
RECURSIVE Refs(_, _, _)
Refs(t, x, h) ==
  CASE t.kind = "map" ->
         IF x = 0 THEN {}
         ELSE {x} \cup UNION {Refs(t.elem, h[x].kv[k], h) : k \in DOMAIN h[x].kv}
    [] t.kind = "ptr" -> IF x = <<>> THEN {} ELSE Refs(t.elem, x[1], h)
    [] t.kind = "struct" -> UNION {Refs(t.fields[i].Type, x[i], h) : i \in 1..Len(t.fields)}
    [] OTHER -> {}

\* the garbage collector: map objects no root reaches are freed
Sweep(h, live) == [i \in 1..MaxHeap |-> IF i \in live THEN h[i] ELSE FreeSlot]

-----------------------------------------------------------------------------
(* Conversions *)

Digits == {"0", "1", "2", "3", "4", "5", "6", "7", "8", "9"}

DigitVal(c) ==
  CASE c = "0" -> 0 [] c = "1" -> 1 [] c = "2" -> 2 [] c = "3" -> 3 [] c = "4" -> 4
    [] c = "5" -> 5 [] c = "6" -> 6 [] c = "7" -> 7 [] c = "8" -> 8 [] c = "9" -> 9

IsDigits(s) == Len(s) > 0 /\ \A i \in 1..Len(s) : s[i] \in Digits

RECURSIVE ParseDigits(_)
ParseDigits(s) ==
  IF s = <<>> THEN 0
  ELSE 10 * ParseDigits(SubSeq(s, 1, Len(s) - 1)) + DigitVal(s[Len(s)])

\* cast.ToString of a raw value (raw values are Go strings here)
ToString(x) == x

\* cast.ToInt of a string: the number it spells, 0 when it spells none
ToInt(x) == IF IsDigits(x) THEN ParseDigits(x) ELSE 0

\* Port.UnmarshalText: rejects text that is not a number
UnmarshalText(s) == [err |-> ~IsDigits(s), val |-> IF IsDigits(s) THEN ParseDigits(s) ELSE 0]

\* castValue(f, v), f of type t; the types it does not list pass v through
castValue(t, x) ==
  CASE t.kind = "string" -> ToString(x)
    [] t.kind = "int" -> ToInt(x)
    [] OTHER -> x

-----------------------------------------------------------------------------
(* Binder: getStructKeys *)

RECURSIVE getStructKeys(_, _)
RECURSIVE StructKeysFrom(_, _, _)

\* the loop body of getStructKeys for field i and the fields after it; for a
\* struct field the code declares a new `prefix`, so the recursion receives the
\* field's own tag and not the enclosing prefix
StructKeysFrom(t, prefix, i) ==
  IF i > Len(t.fields) THEN <<>>
  ELSE LET fieldValue == t.fields[i]
           tag == IF fieldValue.Tag = NoTag
                  THEN IF fieldValue.Name = <<>> THEN EmbedTag ELSE ToLower(fieldValue.Name)
                  ELSE fieldValue.Tag
           rest == StructKeysFrom(t, prefix, i + 1)
       IN IF fieldValue.Tag = DashTag THEN rest
          ELSE IF fieldValue.Type.kind = "struct"
               THEN getStructKeys(fieldValue.Type,
                                  IF tag = EmbedTag THEN <<>> ELSE tag \o <<KeySep>>) \o rest
               ELSE <<prefix \o tag>> \o rest

getStructKeys(t, prefix) == StructKeysFrom(t, prefix, 1)

-----------------------------------------------------------------------------
(* Path Resolver: value.setStruct *)

\* field.CanSet(): the target is addressable, so every exported field can be set
CanSet(name) == Len(name) > 0 /\ name[1] \in Upper

\* the tag setStruct matches a field by
MatchTag(fieldValue) ==
  IF fieldValue.Tag = NoTag /\ fieldValue.Name = <<>> THEN EmbedTag ELSE fieldValue.Tag

\* tag == k || strings.EqualFold(fieldName, k)
ExactMatch(fieldValue, k) ==
  MatchTag(fieldValue) = k \/ EqualFold(fieldValue.Name, k)

\* the else-if of the field loop: embedded, or k has the tag or the name as prefix
PrefixMatch(fieldValue, k) ==
  \/ MatchTag(fieldValue) = EmbedTag
  \/ HasPrefix(k, MatchTag(fieldValue) \o <<KeySep>>)
  \/ HasPrefix(ToLower(k), ToLower(fieldValue.Name) \o <<KeySep>>)

\* RestKey cutting the tag or the name but not the separator after it
RestKeyKeepSep(fieldValue, k) ==
  IF MatchTag(fieldValue) = EmbedTag THEN k
  ELSE IF HasPrefix(k, MatchTag(fieldValue) \o <<KeySep>>)
       THEN Drop(k, Len(MatchTag(fieldValue)))
       ELSE Drop(k, Len(fieldValue.Name))

\* nK: the key with the matched prefix cut off
RestKey(fieldValue, k) ==
  IF MatchTag(fieldValue) = EmbedTag THEN k
  ELSE IF HasPrefix(k, MatchTag(fieldValue) \o <<KeySep>>)
       THEN Drop(k, Len(MatchTag(fieldValue) \o <<KeySep>>))
       ELSE Drop(k, Len(fieldValue.Name \o <<KeySep>>))

\* The state a call of setStruct works on: the struct value it was handed
\* (rec), the heap, whether a field was set, whether it panicked, and whether
\* an allocation found the heap full.
Acc(rec, h) == [rec |-> rec, heap |-> h, set |-> FALSE, panic |-> FALSE, oom |-> FALSE]

\* AssignField zeroing the field when the result equals what the field holds
\* (result compared with the field where the code compares it with nil)
AssignFieldZeroOnEqual(x, t, acc, i) ==
  LET ft == t.fields[i].Type
      text == UnmarshalText(ToString(x))
      ref == Alloc(acc.heap)
  IN IF ~CanSet(t.fields[i].Name) THEN [acc EXCEPT !.set = TRUE]
     ELSE CASE ft.kind = "text" ->
                 IF text.err THEN [acc EXCEPT !.panic = TRUE]
                 ELSE [acc EXCEPT !.rec[i] = text.val, !.set = TRUE]
            [] ft.kind \in {"string", "int", "interface"} ->
                 [acc EXCEPT !.rec[i] = IF acc.rec[i] = castValue(ft, x) THEN Zero(ft)
                                        ELSE castValue(ft, x),
                             !.set = TRUE]
            [] ft.kind = "map" /\ ft.elem.kind = "string" ->
                 IF ref = 0 THEN [acc EXCEPT !.oom = TRUE]
                 ELSE [acc EXCEPT !.rec[i] = ref, !.heap[ref] = EmptyMap, !.set = TRUE]
            [] OTHER ->
                 [acc EXCEPT !.panic = TRUE]

\* the exact-match branch: Text-Codec hook, else castValue and field.Set
AssignField(x, t, acc, i) ==
  LET ft == t.fields[i].Type
      text == UnmarshalText(ToString(x))
      ref == Alloc(acc.heap)
  IN IF ~CanSet(t.fields[i].Name) THEN [acc EXCEPT !.set = TRUE]
     ELSE CASE ft.kind = "text" ->
                 \* unmarshalText: a decoding error panics
                 IF text.err THEN [acc EXCEPT !.panic = TRUE]
                 ELSE [acc EXCEPT !.rec[i] = text.val, !.set = TRUE]
            [] ft.kind \in {"string", "int", "interface"} ->
                 [acc EXCEPT !.rec[i] = castValue(ft, x), !.set = TRUE]
            [] ft.kind = "map" /\ ft.elem.kind = "string" ->
                 \* cast.ToStringMapString of a string that is no JSON object: an empty map
                 IF ref = 0 THEN [acc EXCEPT !.oom = TRUE]
                 ELSE [acc EXCEPT !.rec[i] = ref, !.heap[ref] = EmptyMap, !.set = TRUE]
            [] OTHER ->
                 \* castValue passes the string through and field.Set panics on the type
                 [acc EXCEPT !.panic = TRUE]

RECURSIVE setStruct(_, _, _, _, _)
RECURSIVE FieldsFrom(_, _, _, _, _)
RECURSIVE DescendMap(_, _, _, _, _)
RECURSIVE DescendStruct(_, _, _, _, _)
RECURSIVE DescendPtr(_, _, _, _, _)

\* case reflect.Map: a map of strings is written in place, a map of structs (or
\* of pointers to structs) gets the entry copied, set and put back
DescendMap(nK, x, t, acc, i) ==
  LET ft == t.fields[i].Type
      elt == ft.elem
      isStruct == elt.kind = "struct"
      isPtrStruct == elt.kind = "ptr" /\ elt.elem.kind = "struct"
      structType == IF isStruct THEN elt ELSE elt.elem
      field == acc.rec[i]
      fresh == Alloc(acc.heap)
      ref == IF field = 0 THEN fresh ELSE field
      \* if field.IsNil() { field.Set(reflect.MakeMap(...)) }
      made == IF field = 0
              THEN [acc EXCEPT !.rec[i] = ref, !.heap[ref] = EmptyMap]
              ELSE acc
      keyElt == SplitN2(nK)
      mapKey == keyElt[1]
      old == made.heap[ref].kv
      nVal == IF mapKey \in DOMAIN old
              THEN (IF isStruct THEN old[mapKey] ELSE old[mapKey][1])
              ELSE Zero(structType)
      r == setStruct(keyElt[2], x, structType, nVal, made.heap)
      entry == IF isStruct THEN r.rec ELSE <<r.rec>>
  IN IF isStruct \/ isPtrStruct
     THEN IF Len(keyElt) # 2 THEN acc
          ELSE IF ref = 0 THEN [acc EXCEPT !.oom = TRUE]
          ELSE IF r.panic \/ r.oom
               THEN [made EXCEPT !.heap = r.heap, !.panic = r.panic, !.oom = r.oom]
          ELSE IF r.set
               THEN [made EXCEPT !.heap = [r.heap EXCEPT ![ref].kv = Put(r.heap[ref].kv, mapKey, entry)],
                                 !.set = TRUE]
          ELSE [made EXCEPT !.heap = r.heap]
     ELSE IF elt.kind = "string"
     THEN IF ref = 0 THEN [acc EXCEPT !.oom = TRUE]
          ELSE [made EXCEPT !.heap[ref].kv = Put(made.heap[ref].kv, nK, x), !.set = TRUE]
     ELSE acc

\* case reflect.Struct: the field is copied, set, and stored back when touched
DescendStruct(nK, x, t, acc, i) ==
  LET r == setStruct(nK, x, t.fields[i].Type, acc.rec[i], acc.heap)
  IN IF ~CanSet(t.fields[i].Name) THEN acc
     ELSE IF r.panic \/ r.oom
          THEN [acc EXCEPT !.heap = r.heap, !.panic = r.panic, !.oom = r.oom]
     ELSE IF r.set
          THEN [acc EXCEPT !.rec[i] = r.rec, !.heap = r.heap, !.set = TRUE]
     ELSE [acc EXCEPT !.heap = r.heap]

\* case reflect.Ptr to a struct: a new struct, copied from the pointee when there is one
DescendPtr(nK, x, t, acc, i) ==
  LET structType == t.fields[i].Type.elem
      nVal == IF acc.rec[i] = <<>> THEN Zero(structType) ELSE acc.rec[i][1]
      r == setStruct(nK, x, structType, nVal, acc.heap)
  IN IF structType.kind # "struct" \/ ~CanSet(t.fields[i].Name) THEN acc
     ELSE IF r.panic \/ r.oom
          THEN [acc EXCEPT !.heap = r.heap, !.panic = r.panic, !.oom = r.oom]
     ELSE IF r.set
          THEN [acc EXCEPT !.rec[i] = <<r.rec>>, !.heap = r.heap, !.set = TRUE]
     ELSE [acc EXCEPT !.heap = r.heap]

\* FieldsFrom leaving the loop at the first exact match (break for continue)
RECURSIVE FieldsFromFirstWins(_, _, _, _, _)
FieldsFromFirstWins(k, x, t, acc, i) ==
  IF i > Len(t.fields) \/ acc.panic \/ acc.oom THEN acc
  ELSE LET fieldValue == t.fields[i]
           kind == fieldValue.Type.kind
           nK == RestKey(fieldValue, k)
           next == IF PrefixMatch(fieldValue, k)
                   THEN CASE kind = "map" -> DescendMap(nK, x, t, acc, i)
                          [] kind = "struct" -> DescendStruct(nK, x, t, acc, i)
                          [] kind = "ptr" -> DescendPtr(nK, x, t, acc, i)
                          [] OTHER -> acc
                   ELSE acc
       IN IF ExactMatch(fieldValue, k) THEN AssignField(x, t, acc, i)
          ELSE FieldsFromFirstWins(k, x, t, next, i + 1)

\* the field loop from field i on
FieldsFrom(k, x, t, acc, i) ==
  IF i > Len(t.fields) \/ acc.panic \/ acc.oom THEN acc
  ELSE LET fieldValue == t.fields[i]
           kind == fieldValue.Type.kind
           nK == RestKey(fieldValue, k)
           next == IF ExactMatch(fieldValue, k) THEN AssignField(x, t, acc, i)
                   ELSE IF PrefixMatch(fieldValue, k)
                        THEN CASE kind = "map" -> DescendMap(nK, x, t, acc, i)
                               [] kind = "struct" -> DescendStruct(nK, x, t, acc, i)
                               [] kind = "ptr" -> DescendPtr(nK, x, t, acc, i)
                               [] OTHER -> acc
                        ELSE acc
       IN FieldsFrom(k, x, t, next, i + 1)

\* setStruct(k, v, targetValue): targetValue points to rec, a struct of type t
setStruct(k, x, t, rec, h) == FieldsFrom(k, x, t, Acc(rec, h), 1)

-----------------------------------------------------------------------------
(* value.set and value.setValues on a loaded snapshot *)

\* for _, kk := range keys { nMap[kk] = src[kk] }
RECURSIVE CopyKeys(_, _, _)
CopyKeys(nMap, src, keys) ==
  IF keys = <<>> THEN nMap
  ELSE CopyKeys(Put(nMap, keys[1], src[keys[1]]), src, Tail(keys))

\* the entries of the map a reference denotes (none for the nil map)
MapOf(ref, h) == IF ref = 0 THEN <<>> ELSE h[ref].kv

\* copier.Copy(nVal.Interface(), configValue): the struct is copied field by
\* field; a map field of the copy denotes the same map object as the original
copierCopy(configValue) == configValue

\* the body of set between Load and Store: the new value, the heap after it
setBody(t, configValue, h, k, x) ==
  IF t.kind = "map"
  THEN LET ref == Alloc(h)
           mapV == MapOf(configValue, h)
           nMap == Put(CopyKeys(<<>>, mapV, sorted(mapV)), k, x)
       IN [rec |-> ref,
           heap |-> IF ref = 0 THEN h ELSE [h EXCEPT ![ref] = [used |-> TRUE, kv |-> nMap]],
           set |-> TRUE, panic |-> FALSE, oom |-> ref = 0]
  ELSE setStruct(k, x, t, copierCopy(configValue), h)

\* setValues on a map: the new map before the keys of x are put
valuesStartMap(configValue, h) ==
  LET ref == Alloc(h)
      mapV == MapOf(configValue, h)
  IN [rec |-> ref,
      heap |-> IF ref = 0 THEN h
               ELSE [h EXCEPT ![ref] = [used |-> TRUE, kv |-> CopyKeys(<<>>, mapV, sorted(mapV))]],
      set |-> FALSE, panic |-> FALSE, oom |-> ref = 0]

\* setValues on a struct: nVal = reflect.New(t), which no copy fills
valuesStartStruct(t, configValue, h) == Acc(Zero(t), h)

valuesStart(t, configValue, h) ==
  IF t.kind = "map" THEN valuesStartMap(configValue, h)
  ELSE valuesStartStruct(t, configValue, h)

\* one turn of the loop over sorted(x): key kk of the batch applied to nVal
valuesKey(t, acc, kk, x) ==
  IF t.kind = "map"
  THEN [acc EXCEPT !.heap[acc.rec].kv = Put(acc.heap[acc.rec].kv, kk, x[kk])]
  ELSE LET r == setStruct(kk, x[kk], t, acc.rec, acc.heap)
       IN [r EXCEPT !.set = acc.set \/ r.set]

RECURSIVE valuesLoop(_, _, _, _)
valuesLoop(t, acc, keys, x) ==
  IF keys = <<>> \/ acc.panic \/ acc.oom THEN acc
  ELSE valuesLoop(t, valuesKey(t, acc, keys[1], x), Tail(keys), x)

\* the body of setValues between Load and Store
setValuesBody(t, configValue, h, x) ==
  valuesLoop(t, valuesStart(t, configValue, h), sorted(x), x)

-----------------------------------------------------------------------------
(* Inputs *)

\* the raw values configuration sources deliver
Raws == {<<"7">>, <<"x">>}

K_a == <<"a">>
K_c == <<"c">>
K_n == <<"n">>
K_y == <<"y">>
K_sh == <<"s", ".", "h">>
K_siz == <<"s", ".", "i", ".", "z">>
K_pq == <<"p", ".", "q">>
K_sy == <<"s", ".", "y">>
K_tx == <<"t", ".", "x">>
K_txu == <<"t", ".", "x", ".", "u">>
K_rxn == <<"r", ".", "x", ".", "n">>
K_rxu == <<"r", ".", "x", ".", "u">>
K_rxb == <<"r", ".", "x", ".", "b">>
K_g == <<"g">>
K_f == <<"f">>

\* the keys set on a binding of type t
KeysOf(t) ==
  CASE t = ShapeFlat -> {K_a, K_c, K_n, K_y}
    [] t = ShapeNest -> {K_sh, K_siz, K_pq, K_sy}
    [] t = ShapeMaps -> {K_tx, K_txu, K_rxn, K_rxu, K_rxb}
    [] t = ShapeTie -> {K_g, K_f}
    [] t = OpenMap -> {K_a, K_n}
    [] OTHER -> {}

\* the keys that occur in the batches handed to setValues on a binding of type t
BatchKeysOf(t) ==
  CASE t = ShapeFlat -> {K_a, K_n, K_y}
    [] t = ShapeNest -> {K_sh, K_pq}
    [] t = ShapeMaps -> {K_txu, K_rxn}
    [] t = ShapeTie -> {K_g, K_f}
    [] t = OpenMap -> {K_a, K_n}
    [] OTHER -> {}

\* largest number of keys in one setValues call
MaxBatch == 2

\* the batches handed to setValues on a binding of type t
BatchesOf(t) ==
  UNION {[ks -> Raws] : ks \in {q \in SUBSET BatchKeysOf(t) : q # {} /\ Cardinality(q) <= MaxBatch}}

\* the values handed to Bind and to BindStructStrict
BindTargets == {ShapeMaps, ShapeTie, OpenMap, TInt}
StrictTargets == {ShapeFlat, ShapeNest, OpenMap}

-----------------------------------------------------------------------------
(* The store used by one caller at a time: every handler is one step *)

NoCall ==
  [op |-> "none", key |-> <<>>, val |-> <<>>, batch |-> <<>>, res |-> "ok", rep |-> FALSE]

NoSnap == [held |-> FALSE, type |-> TInt, root |-> 0, deep |-> 0]

Threads == {1, 2}

IdleLoc == [cfg |-> <<>>, acc |-> <<>>, keys |-> <<>>, pre |-> <<>>]

Bound == v # <<>>

\* the contents of the live snapshot
Live == Deep(vt, v[1], heap)

\* the map objects some root still reaches
Roots(type, cell, snp, locs, h) ==
  (IF cell = <<>> THEN {} ELSE Refs(type, cell[1], h))
  \cup (IF snp.held THEN Refs(snp.type, snp.root, h) ELSE {})
  \cup UNION {(IF locs[t].cfg = <<>> THEN {} ELSE Refs(type, locs[t].cfg[1], h))
              \cup (IF locs[t].acc = <<>> THEN {} ELSE Refs(type, locs[t].acc[1].rec, h))
              : t \in Threads}

Init ==
  /\ vt = <<>>
  /\ v = <<>>
  /\ heap = EmptyHeap
  /\ mut = 0
  /\ strict = <<>>
  /\ last = NoCall
  /\ snap = NoSnap
  /\ pc = [t \in Threads |-> "idle"]
  /\ call = [t \in Threads |-> NoCall]
  /\ loc = [t \in Threads |-> IdleLoc]
  /\ log = <<>>

\* (c *S) Bind(v), v of type t
BindTo(t, op) ==
  IF t.kind # "map" /\ t.kind # "struct"
  THEN \* panic(ErrIncorrectValue)
       /\ last' = [NoCall EXCEPT !.op = op, !.res = "panic"]
       /\ UNCHANGED <<vt, v, heap>>
  ELSE /\ vt' = t
       /\ v' = <<Zero(t)>>
       /\ heap' = Sweep(heap, Roots(t, <<Zero(t)>>, snap, loc, heap))
       /\ last' = [NoCall EXCEPT !.op = op]

Bind ==
  \E t \in BindTargets :
    /\ BindTo(t, "bind")
    /\ UNCHANGED <<mut, strict, snap, pc, call, loc, log>>

\* (c *S) BindStructStrict(v): the keys go to c.Strict, then Bind
BindStructStrict ==
  \E t \in StrictTargets :
    /\ IF t.kind # "struct"
       THEN \* panic(ErrIncorrectStructValue)
            /\ last' = [NoCall EXCEPT !.op = "bindStrict", !.res = "panic"]
            /\ UNCHANGED <<vt, v, heap, strict>>
       ELSE /\ strict' = getStructKeys(t, <<>>)
            /\ BindTo(t, "bindStrict")
    /\ UNCHANGED <<mut, snap, pc, call, loc, log>>

\* what a handler leaves behind: r is the outcome of its body; nothing is
\* stored when it panicked
Publish(r, done) ==
  /\ ~r.oom
  /\ v' = IF r.panic THEN v ELSE <<r.rec>>
  /\ heap' = Sweep(r.heap, Roots(vt, v', snap, loc, r.heap))
  /\ last' = [done EXCEPT !.res = IF r.panic THEN "panic"
                                     ELSE IF r.set THEN "ok" ELSE "notfound"]

\* value.set(k, x), whole
Set ==
  \E k \in KeysOf(vt), x \in Raws :
    /\ Bound
    /\ mut = 0
    /\ Publish(setBody(vt, v[1], heap, k, x),
               [NoCall EXCEPT !.op = "set", !.key = k, !.val = x,
                              !.rep = (last.op = "set" /\ last.key = k /\ last.val = x
                                       /\ last.res # "panic")])
    /\ UNCHANGED <<vt, mut, strict, snap, pc, call, loc, log>>

\* value.setValues(x), whole
SetValues ==
  \E x \in BatchesOf(vt) :
    /\ Bound
    /\ mut = 0
    /\ Publish(setValuesBody(vt, v[1], heap, x),
               [NoCall EXCEPT !.op = "setValues", !.batch = x])
    /\ UNCHANGED <<vt, mut, strict, snap, pc, call, loc, log>>

Next == Bind \/ BindStructStrict \/ Set \/ SetValues

Spec == Init /\ [][Next]_vars

-----------------------------------------------------------------------------
(* What the claims speak of: leaf fields, the keys that address them, and the
   value a raw input coerces to *)

IsRecord(t) == t.kind = "struct" \/ (t.kind = "ptr" /\ t.elem.kind = "struct")

RecordOf(t) == IF t.kind = "ptr" THEN t.elem ELSE t

\* the leaf fields of a record type, each as the field indices leading to it
\* through nested records and pointers to records
RECURSIVE LeafPaths(_)
LeafPaths(t) ==
  UNION {IF IsRecord(t.fields[i].Type)
         THEN {<<i>> \o p : p \in LeafPaths(RecordOf(t.fields[i].Type))}
         ELSE {<<i>>} : i \in 1..Len(t.fields)}

RECURSIVE TypeAt(_, _)
TypeAt(t, p) ==
  IF Len(p) = 1 THEN t.fields[p[1]].Type
  ELSE TypeAt(RecordOf(t.fields[p[1]].Type), Tail(p))

\* the contents d of a record of type t, followed along p: <<value>>, or <<>>
\* when a nil pointer lies on the way
RECURSIVE At(_, _, _)
At(t, d, p) ==
  LET ft == t.fields[p[1]].Type
  IN IF Len(p) = 1 THEN <<d[p[1]]>>
     ELSE IF ft.kind = "ptr"
          THEN (IF d[p[1]] = <<>> THEN <<>> ELSE At(ft.elem, d[p[1]][1], Tail(p)))
          ELSE At(ft, d[p[1]], Tail(p))

\* key k addresses the leaf at path p of record type t: its segments name the
\* fields on the way, each by its tag or (in any case) by its name, an embedded
\* field taking no segment; a map leaf is addressed by every key below it
RECURSIVE Addresses(_, _, _)
Addresses(t, p, k) ==
  LET f == t.fields[p[1]]
      byTag == f.Tag # NoTag /\ HasPrefix(k, f.Tag \o <<KeySep>>)
      byName == HasPrefix(ToLower(k), ToLower(f.Name) \o <<KeySep>>)
  IN IF Len(p) = 1
     THEN \/ f.Tag = k
          \/ EqualFold(f.Name, k)
          \/ f.Type.kind = "map" /\ (byTag \/ byName)
     ELSE IF f.Tag = EmbedTag THEN Addresses(RecordOf(f.Type), Tail(p), k)
     ELSE \/ byTag /\ Addresses(RecordOf(f.Type), Tail(p), Drop(k, Len(f.Tag) + 1))
          \/ byName /\ Addresses(RecordOf(f.Type), Tail(p), Drop(k, Len(f.Name) + 1))

\* coerce(x, type): a string field takes the text, an integer field the number
\* the text spells, or zero
Coerced(t, x) ==
  IF t.kind = "int"
  THEN (IF x = <<"7">> THEN 7 ELSE 0)
  ELSE x

ScalarLeaves(t) == {p \in LeafPaths(t) : TypeAt(t, p).kind \in {"string", "int"}}

IsRecordBinding == Bound /\ vt.kind = "struct"

-----------------------------------------------------------------------------
(* Claims about the sequential API *)

\* C1 (as claimed): after setValues(x) on a Record binding, every leaf field
\* that no key of x addresses holds the value it held in the snapshot
\* published immediately before the call.
C1_SetValuesKeepsOtherFields ==
  [][(last'.op = "setValues" /\ last'.res # "panic" /\ IsRecordBinding)
       => \A p \in LeafPaths(vt) :
            (\A k \in DOMAIN last'.batch : ~Addresses(vt, p, k))
              => At(vt, Live', p) = At(vt, Live, p)]_vars

\* C5: after set(k, x) on a Record binding, every scalar leaf field that k
\* addresses (directly, through nested Records, through an embedded field or
\* through a pointer to a Record) equals coerce(x, type of the field) in the
\* live snapshot.
C5_SetAssignsCoerced ==
  (last.op = "set" /\ IsRecordBinding)
    => \A p \in ScalarLeaves(vt) :
         Addresses(vt, p, last.key)
           => At(vt, Live, p) = <<Coerced(TypeAt(vt, p), last.val)>>

\* C5 witness: set("p.q", "7") has run and the field behind the pointer holds 7
C5_Witness ==
  /\ vt = ShapeNest /\ Bound
  /\ last.op = "set" /\ last.key = K_pq /\ last.val = <<"7">>
  /\ At(vt, Live, <<2, 1>>) = <<7>>

\* the keys the claim expects of a record type: every leaf not tagged "-",
\* under the aliases of all its non-embedded ancestors
RECURSIVE ClaimedKeys(_, _)
ClaimedKeys(t, prefix) ==
  UNION {LET f == t.fields[i]
             alias == IF f.Tag = NoTag THEN ToLower(f.Name) ELSE f.Tag
         IN IF f.Tag = DashTag THEN {}
            ELSE IF f.Type.kind = "struct"
                 THEN ClaimedKeys(f.Type, IF alias = EmbedTag THEN prefix
                                          ELSE prefix \o alias \o <<KeySep>>)
                 ELSE {prefix \o alias} : i \in 1..Len(t.fields)}

\* C6 (as claimed): the keys bindStrict registers are exactly the full key
\* paths of the leaves of the bound Record, one key per leaf.
C6_StrictKeysAreLeafPaths ==
  (last.op = "bindStrict" /\ last.res = "ok")
    => /\ {strict[i] : i \in 1..Len(strict)} = ClaimedKeys(vt, <<>>)
       /\ Len(strict) = Cardinality(ClaimedKeys(vt, <<>>))

\* C7 (as claimed): a set(k, x) that touches no field leaves every field of
\* the snapshot as it was, a nil map staying nil.
C7_NotFoundChangesNothing ==
  [][(last'.op = "set" /\ last'.res = "notfound" /\ IsRecordBinding) => Live' = Live]_vars

\* C8: a set(k, x) that repeats the call before it leaves the snapshot as that
\* call left it.
C8_SetIdempotent ==
  [][(last'.op = "set" /\ last'.rep) => Live' = Live]_vars

\* C8 witness: set("r.x.n", "7") has run twice in a row on a map of records
C8_Witness ==
  /\ vt = ShapeMaps /\ Bound
  /\ last.op = "set" /\ last.rep /\ last.key = K_rxn /\ last.val = <<"7">>
  /\ <<"x">> \in DOMAIN Live[2].kv

\* field j of t matches k exactly, and so does a field declared before it
LaterExact(t, j, k) ==
  /\ t.fields[j].Tag = k \/ EqualFold(t.fields[j].Name, k)
  /\ \E i \in 1..(j - 1) : t.fields[i].Tag = k \/ EqualFold(t.fields[i].Name, k)

\* C9 (as claimed): when several fields match k exactly, set(k, x) assigns the
\* first only; the later ones keep their values.
C9_FirstMatchOnly ==
  [][(last'.op = "set" /\ IsRecordBinding)
       => \A j \in 1..Len(vt.fields) :
            LaterExact(vt, j, last'.key) => Live'[j] = Live[j]]_vars

\* C9 (amended): when several fields match k exactly, set(k, x) assigns every
\* one of them, the later ones too.
C9_EveryMatchAssigned ==
  (last.op = "set" /\ IsRecordBinding)
    => \A j \in 1..Len(vt.fields) :
         (LaterExact(vt, j, last.key) /\ vt.fields[j].Type.kind \in {"string", "int"})
           => Live[j] = Coerced(vt.fields[j].Type, last.val)

\* C9 witness: set("g", "7") has run on F (tag "g") and G, and both hold "7"
C9_Witness ==
  /\ vt = ShapeTie /\ Bound
  /\ last.op = "set" /\ last.key = K_g /\ last.val = <<"7">>
  /\ Live[1] = <<"7">> /\ Live[2] = <<"7">>

-----------------------------------------------------------------------------
(* The store used by several threads: set and setValues step by step, with
   readers calling Value() in between *)

\* calls each thread makes
MaxCalls == 1

\* the bindings the threads work on
ConcShapes == {ShapeFlat, ShapeMaps, OpenMap}

\* the state after Bind(t), t one of ConcShapes
InitConc ==
  /\ vt \in ConcShapes
  /\ v = <<Zero(vt)>>
  /\ heap = EmptyHeap
  /\ mut = 0
  /\ strict = <<>>
  /\ last = NoCall
  /\ snap = NoSnap
  /\ pc = [t \in Threads |-> "idle"]
  /\ call = [t \in Threads |-> NoCall]
  /\ loc = [t \in Threads |-> IdleLoc]
  /\ log = <<>>

CallsOf(t) == Cardinality({i \in DOMAIN log : log[i].t = t})

\* the heap after a step, garbage collected
Collect(h, cell, locs) == Sweep(h, Roots(vt, cell, snap, locs, h))

\* a caller enters set(k, x)
CallSet(t) ==
  \E k \in KeysOf(vt), x \in Raws :
    /\ pc[t] = "idle"
    /\ CallsOf(t) < MaxCalls
    /\ call' = [call EXCEPT ![t] = [NoCall EXCEPT !.op = "set", !.key = k, !.val = x]]
    /\ pc' = [pc EXCEPT ![t] = "lock"]
    /\ UNCHANGED <<vt, v, heap, mut, strict, last, snap, loc, log>>

\* a caller enters setValues(x)
CallSetValues(t) ==
  \E x \in BatchesOf(vt) :
    /\ pc[t] = "idle"
    /\ CallsOf(t) < MaxCalls
    /\ call' = [call EXCEPT ![t] = [NoCall EXCEPT !.op = "setValues", !.batch = x]]
    /\ pc' = [pc EXCEPT ![t] = "lock"]
    /\ UNCHANGED <<vt, v, heap, mut, strict, last, snap, loc, log>>

\* Lock that does not wait for the holder to unlock
LockNoWait(t) ==
  /\ pc[t] = "lock"
  /\ mut' = t
  /\ pc' = [pc EXCEPT ![t] = "load"]
  /\ UNCHANGED <<vt, v, heap, strict, last, snap, call, loc, log>>

\* val.mut.Lock()
Lock(t) ==
  /\ pc[t] = "lock"
  /\ mut = 0
  /\ mut' = t
  /\ pc' = [pc EXCEPT ![t] = "load"]
  /\ UNCHANGED <<vt, v, heap, strict, last, snap, call, loc, log>>

\* configValue = val.v.Load()
Load(t) ==
  /\ pc[t] = "load"
  /\ loc' = [loc EXCEPT ![t] = [cfg |-> v, acc |-> <<>>,
                                keys |-> IF call[t].op = "setValues"
                                         THEN sorted(call[t].batch) ELSE <<>>,
                                pre |-> <<Live>>]]
  /\ pc' = [pc EXCEPT ![t] = IF call[t].op = "set" THEN "body" ELSE "new"]
  /\ UNCHANGED <<vt, v, heap, mut, strict, last, snap, call, log>>

\* what a step of a body leaves in the thread and on the heap; a panic unwinds
\* to the deferred Unlock
Stepped(t, r, keys, thenPc) ==
  /\ ~r.oom
  /\ loc' = [loc EXCEPT ![t].acc = IF r.panic THEN <<>> ELSE <<[rec |-> r.rec, set |-> r.set]>>,
                        ![t].keys = keys]
  /\ heap' = Collect(r.heap, v, loc')
  /\ call' = [call EXCEPT ![t].res = IF r.panic THEN "panic"
                                     ELSE IF r.set THEN "ok" ELSE "notfound"]
  /\ pc' = [pc EXCEPT ![t] = IF r.panic THEN "unlock" ELSE thenPc]

\* set: the copy of configValue and setStruct on it (or the new map)
SetBody(t) ==
  /\ pc[t] = "body"
  /\ Stepped(t, setBody(vt, loc[t].cfg[1], heap, call[t].key, call[t].val), <<>>, "store")
  /\ UNCHANGED <<vt, v, mut, strict, last, snap, log>>

\* setValues: nVal = reflect.New(t), or the new map holding the old entries
NewValue(t) ==
  /\ pc[t] = "new"
  /\ Stepped(t, valuesStart(vt, loc[t].cfg[1], heap), loc[t].keys, "keys")
  /\ UNCHANGED <<vt, v, mut, strict, last, snap, log>>

\* ApplyKey storing nVal after every key instead of once after the loop
ApplyKeyStoring(t) ==
  /\ pc[t] = "keys"
  /\ loc[t].keys # <<>>
  /\ LET r == valuesKey(vt, [Acc(loc[t].acc[1].rec, heap) EXCEPT !.set = loc[t].acc[1].set],
                        loc[t].keys[1], call[t].batch)
     IN /\ ~r.oom
        /\ loc' = [loc EXCEPT ![t].acc = IF r.panic THEN <<>> ELSE <<[rec |-> r.rec, set |-> r.set]>>,
                              ![t].keys = Tail(loc[t].keys)]
        /\ v' = IF r.panic THEN v ELSE <<r.rec>>
        /\ heap' = Collect(r.heap, v', loc')
        /\ call' = [call EXCEPT ![t].res = IF r.panic THEN "panic"
                                           ELSE IF r.set THEN "ok" ELSE "notfound"]
        /\ pc' = [pc EXCEPT ![t] = IF r.panic THEN "unlock"
                                   ELSE IF Tail(loc[t].keys) = <<>> THEN "store" ELSE "keys"]
  /\ UNCHANGED <<vt, mut, strict, last, snap, log>>

\* setValues: one turn of the loop over sorted(x)
ApplyKey(t) ==
  /\ pc[t] = "keys"
  /\ loc[t].keys # <<>>
  /\ Stepped(t,
             valuesKey(vt, [Acc(loc[t].acc[1].rec, heap) EXCEPT !.set = loc[t].acc[1].set],
                       loc[t].keys[1], call[t].batch),
             Tail(loc[t].keys),
             IF Tail(loc[t].keys) = <<>> THEN "store" ELSE "keys")
  /\ UNCHANGED <<vt, v, mut, strict, last, snap, log>>

\* val.v.Store(...)
Store(t) ==
  /\ pc[t] = "store"
  /\ v' = <<loc[t].acc[1].rec>>
  /\ pc' = [pc EXCEPT ![t] = "unlock"]
  /\ heap' = Collect(heap, v', loc)
  /\ UNCHANGED <<vt, mut, strict, last, snap, call, loc, log>>

\* the deferred val.mut.Unlock(), and the return to the caller
Unlock(t) ==
  /\ pc[t] = "unlock"
  /\ mut' = 0
  /\ log' = Append(log, [t |-> t, op |-> call[t].op, key |-> call[t].key, val |-> call[t].val,
                         batch |-> call[t].batch, res |-> call[t].res])
  /\ loc' = [loc EXCEPT ![t] = IdleLoc]
  /\ call' = [call EXCEPT ![t] = NoCall]
  /\ pc' = [pc EXCEPT ![t] = "idle"]
  /\ heap' = Collect(heap, v, loc')
  /\ UNCHANGED <<vt, v, strict, last, snap>>

\* (c *S) Value(): the reader keeps what Load returned
Value ==
  /\ Bound
  /\ snap' = [held |-> TRUE, type |-> vt, root |-> v[1], deep |-> Live]
  /\ heap' = Sweep(heap, Roots(vt, v, snap', loc, heap))
  /\ UNCHANGED <<vt, v, mut, strict, last, pc, call, loc, log>>

NextConc ==
  \/ \E t \in Threads : CallSet(t)
  \/ \E t \in Threads : CallSetValues(t)
  \/ \E t \in Threads : Lock(t)
  \/ \E t \in Threads : Load(t)
  \/ \E t \in Threads : SetBody(t)
  \/ \E t \in Threads : NewValue(t)
  \/ \E t \in Threads : ApplyKey(t)
  \/ \E t \in Threads : Store(t)
  \/ \E t \in Threads : Unlock(t)
  \/ Value

SpecConc == InitConc /\ [][NextConc]_vars

-----------------------------------------------------------------------------
(* Claims about readers and concurrent writers *)

InFlight(t) == pc[t] \in {"load", "body", "new", "keys", "store", "unlock"}

\* C2 (as claimed): a snapshot Value() returned keeps its contents, maps
\* included, whatever set / setValues calls follow.
C2_SnapshotsImmutable ==
  snap.held => Deep(snap.type, snap.root, heap) = snap.deep

\* the last key of the batch, in the order setValues applies them, that
\* addresses leaf p
LastKeyFor(t, p, batch) ==
  CHOOSE k \in DOMAIN batch :
    /\ Addresses(t, p, k)
    /\ \A k2 \in DOMAIN batch : (Addresses(t, p, k2) /\ k2 # k) => StrLess(k2, k)

\* the whole batch is applied in contents d of a binding of type t
BatchApplied(t, d, batch) ==
  IF t.kind = "map"
  THEN \A k \in DOMAIN batch : k \in DOMAIN d.kv /\ d.kv[k] = batch[k]
  ELSE \A p \in ScalarLeaves(t) :
         (\E k \in DOMAIN batch : Addresses(t, p, k))
           => At(t, d, p) = <<Coerced(TypeAt(t, p), batch[LastKeyFor(t, p, batch)])>>

\* C3: while a setValues call is between its Load and its Store, Value()
\* returns the snapshot from before the call; once it has stored, Value()
\* returns a snapshot with every key of the batch applied.  No read sees some
\* keys applied and others not.
C3_BatchAtomic ==
  \A t \in Threads :
    call[t].op = "setValues" =>
      /\ pc[t] \in {"new", "keys", "store"} => Live = loc[t].pre[1]
      /\ (pc[t] = "unlock" /\ call[t].res # "panic") => BatchApplied(vt, Live, call[t].batch)

\* C3 witness: a reader called Value() while a two-key batch had one key
\* applied to its private value, and got the snapshot from before the call
C3_Witness ==
  \E t \in Threads :
    /\ vt = ShapeFlat
    /\ call[t].op = "setValues" /\ DOMAIN call[t].batch = {K_a, K_n}
    /\ call[t].batch[K_a] = <<"7">>
    /\ pc[t] = "keys" /\ loc[t].keys = <<K_n>>
    /\ loc[t].acc[1].rec[1] = <<"7">>
    /\ snap.held /\ snap.deep = loc[t].pre[1] /\ snap.deep[1] = <<>>

\* the completed calls were all set calls, none panicked, and no two of them
\* have the same key or address the same leaf
DisjointSets ==
  /\ \A i \in DOMAIN log : log[i].op = "set" /\ log[i].res # "panic"
  /\ \A i, j \in DOMAIN log :
       i # j => /\ log[i].key # log[j].key
                /\ vt.kind = "struct" =>
                     \A p \in LeafPaths(vt) :
                       ~(Addresses(vt, p, log[i].key) /\ Addresses(vt, p, log[j].key))

\* the update of a completed set call is in contents d
Applied(t, d, c) ==
  IF t.kind = "map"
  THEN c.key \in DOMAIN d.kv /\ d.kv[c.key] = c.val
  ELSE \A p \in ScalarLeaves(t) :
         Addresses(t, p, c.key) => At(t, d, p) = <<Coerced(TypeAt(t, p), c.val)>>

\* C4: when concurrent set calls on pairwise disjoint keys have all run to
\* completion, the live snapshot contains the update of each of them.
C4_NoLostUpdate ==
  ((\A t \in Threads : pc[t] = "idle") /\ DisjointSets)
    => \A i \in DOMAIN log : Applied(vt, Live, log[i])

\* C4 witness: two threads have completed set("a", "7") and set("n", "7") and
\* both fields hold the update
C4_Witness ==
  /\ vt = ShapeFlat
  /\ \A t \in Threads : pc[t] = "idle"
  /\ Len(log) = 2 /\ log[1].t # log[2].t
  /\ {log[1].key, log[2].key} = {K_a, K_n}
  /\ log[1].val = <<"7">> /\ log[2].val = <<"7">>
  /\ DisjointSets
  /\ Live[1] = <<"7">> /\ Live[4] = 7

\* C10 (as claimed): a call in which the text codec fails publishes nothing:
\* when it unwinds, Value() returns what it returned before the call; and the
\* lock is held by no thread that is outside set / setValues.
C10_DecodeFailureLeavesStore ==
  \A t \in Threads :
    /\ (pc[t] = "unlock" /\ call[t].res = "panic") => Live = loc[t].pre[1]
    /\ mut = t => InFlight(t)

====
